---- MODULE Spec2Model ----
(***************************************************************************)
(* StudyOS backend: the ingestion / retrieval / feedback pipeline.         *)
(*                                                                         *)
(* Two implementations of the same three routes live in the repository:    *)
(*   "server" : src/server.js                                              *)
(*   "part"   : src/unnamed/part_000, lines 158-423 (kb_chunks variant)    *)
(* The variable impl says which of them the process runs.  The first file *)
(* of part_000 (lines 1-156, tables content and completion_logs) is an     *)
(* earlier variant with other request fields: impl = "early", EarlySpec.   *)
(*                                                                         *)
(* Spec is the server: requests arrive, and each handler runs from one     *)
(* await to the next as the embedding provider and the store settle its    *)
(* calls; FairSpec adds that a pending call settles.  ChunkSpec is         *)
(* chunkText called on its own.                                            *)
(*                                                                         *)
(* JavaScript values.  Short string fields (course, type, outcome, ...)    *)
(* are TLA+ strings; the reserved strings below stand for the non-string   *)
(* values a JSON body can carry.  Texts (raw_text, model_answer, query,    *)
(* chunk contents) are sequences of character codes: a positive code is a  *)
(* letter, Space and Newline are two of the characters /\s/ matches.       *)
(***************************************************************************)
EXTENDS Integers, Sequences, FiniteSets, TLC

Undefined == "<undefined>"
Null      == "<null>"
JsFalse   == "<false>"
JsTrue    == "<true>"

\* !v for a scalar JSON value
Falsy(v) == v \in {Undefined, Null, JsFalse, ""}

Space   == 0
Newline == -1
IsSpace(c) == c \in {Space, Newline}

\* an absent text field (undefined); no string contains the code -2
NoText  == << -2 >>
\* !t for a text field: undefined or the empty string
FalsyText(t) == t = NoText \/ t = << >>

\* the function f on 1..n as a sequence value
AsSeq(f) == << >> \o f

----------------------------------------------------------------------------
(***************************************************************************)
(* String.prototype.split(/\s+/), Array.prototype.filter(Boolean),         *)
(* Array.prototype.join(' ') and Array.prototype.slice.                    *)
(***************************************************************************)

\* the first positions of the maximal runs of non-whitespace of t within
\* lo..hi, in increasing order
RECURSIVE RunStarts(_, _, _)
RunStarts(t, lo, hi) ==
  IF lo > hi THEN << >>
  ELSE IF lo = hi
    THEN IF ~IsSpace(t[lo]) /\ (lo = 1 \/ IsSpace(t[lo - 1])) THEN << lo >> ELSE << >>
    ELSE LET mid == (lo + hi) \div 2
         IN  RunStarts(t, lo, mid) \o RunStarts(t, mid + 1, hi)

\* the last positions of those runs
RECURSIVE RunEnds(_, _, _)
RunEnds(t, lo, hi) ==
  IF lo > hi THEN << >>
  ELSE IF lo = hi
    THEN IF ~IsSpace(t[lo]) /\ (lo = Len(t) \/ IsSpace(t[lo + 1])) THEN << lo >> ELSE << >>
    ELSE LET mid == (lo + hi) \div 2
         IN  RunEnds(t, lo, mid) \o RunEnds(t, mid + 1, hi)

\* text.split(/\s+/): the pieces between maximal runs of whitespace; a
\* separator at the very start or end leaves an empty piece there, and the
\* empty string splits into one empty piece.
Split(t) ==
  IF Len(t) = 0 THEN << << >> >>
  ELSE LET starts == RunStarts(t, 1, Len(t))
           ends   == RunEnds(t, 1, Len(t))
       IN  (IF IsSpace(t[1]) THEN << << >> >> ELSE << >>)
           \o AsSeq([k \in 1..Len(starts) |-> SubSeq(t, starts[k], ends[k])])
           \o (IF IsSpace(t[Len(t)]) THEN << << >> >> ELSE << >>)

\* words.filter(Boolean): the empty string is the only falsy string
FilterBoolean(ws) == SelectSeq(ws, LAMBDA w : w # << >>)

\* ws.slice(lo, hi).join(' ') on 0-based lo, exclusive hi
RECURSIVE JoinRange(_, _, _)
JoinRange(ws, lo, hi) ==
  IF lo >= hi THEN << >>
  ELSE IF hi = lo + 1 THEN ws[lo + 1]
  ELSE LET mid == (lo + hi) \div 2
       IN  JoinRange(ws, lo, mid) \o << Space >> \o JoinRange(ws, mid, hi)

Join(ws) == JoinRange(ws, 0, Len(ws))

Min(a, b) == IF a < b THEN a ELSE b

\* Numbers.  NaN is what arithmetic on undefined gives; no count or index
\* of the model is this low.  An operation on NaN gives NaN, a comparison
\* with NaN is false, and slice takes a NaN index as 0.
NaN == -1000000
Plus(a, b)    == IF a = NaN \/ b = NaN THEN NaN ELSE a + b
Minus(a, b)   == IF a = NaN \/ b = NaN THEN NaN ELSE a - b
MathMin(a, b) == IF a = NaN \/ b = NaN THEN NaN ELSE Min(a, b)
Less(a, b)    == a # NaN /\ b # NaN /\ a < b
LessEq(a, b)  == a # NaN /\ b # NaN /\ a <= b
ToIndex(a)    == IF a = NaN THEN 0 ELSE a

----------------------------------------------------------------------------
(***************************************************************************)
(* Chunk profiles and the word-based chunker.                              *)
(***************************************************************************)

\* src/server.js getChunkConfig: a switch with a default branch
getChunkConfig(profile) ==
  CASE profile = "short_form" -> [sizeWords |-> 400,  overlapWords |-> 60]
    [] profile = "long_book"  -> [sizeWords |-> 1400, overlapWords |-> 180]
    [] OTHER                  -> [sizeWords |-> 900,  overlapWords |-> 120]

\* names that every object literal inherits from Object.prototype: looked
\* up in the table they give a function or an object, which is truthy and
\* has no size and no overlap
PrototypeKeys == {"constructor", "toString", "valueOf", "hasOwnProperty", "__proto__"}

\* part_000 const { size, overlap } = chunkProfiles[profile] ||
\* chunkProfiles.default: the table's own keys, then the inherited ones
\* (size and overlap undefined, NaN in every computation), then the names
\* that are no key at all
chunkProfiles(profile) ==
  CASE profile = "short_form" -> [sizeWords |-> 400,  overlapWords |-> 60]
    [] profile = "default"    -> [sizeWords |-> 900,  overlapWords |-> 120]
    [] profile = "long_book"  -> [sizeWords |-> 1400, overlapWords |-> 180]
    [] profile \in PrototypeKeys -> [sizeWords |-> NaN, overlapWords |-> NaN]
    [] OTHER                  -> [sizeWords |-> 900,  overlapWords |-> 120]

\* a parameter default (profile = 'default') applies to undefined only
DefaultParam(profile) == IF profile = Undefined THEN "default" ELSE profile

\* the loop with the overlap added instead of subtracted (start = end +
\* overlapWords)
RECURSIVE WindowsSkipping(_, _, _, _)
WindowsSkipping(n, sizeWords, overlapWords, start) ==
  IF ~Less(start, n) THEN << >>
  ELSE LET end == MathMin(Plus(start, sizeWords), n)
       IN  IF end = n THEN << << start, end >> >>
           ELSE << << start, end >> >>
                \o WindowsSkipping(n, sizeWords, overlapWords, Plus(end, overlapWords))

\* the word windows <<start, end>> the while loop goes through, in order;
\* n = words.length, start = the loop variable
RECURSIVE Windows(_, _, _, _)
Windows(n, sizeWords, overlapWords, start) ==
  IF ~Less(start, n) THEN << >>
  ELSE LET end == MathMin(Plus(start, sizeWords), n)
       IN  IF end = n THEN << << start, end >> >>
           ELSE << << start, end >> >>
                \o Windows(n, sizeWords, overlapWords, Minus(end, overlapWords))

\* the loop of chunkText: one joined slice per window
SlideChunks(words, sizeWords, overlapWords) ==
  LET wins == Windows(Len(words), sizeWords, overlapWords, 0)
  IN  AsSeq([k \in 1..Len(wins) |->
         JoinRange(words, ToIndex(wins[k][1]), ToIndex(wins[k][2]))])

\* src/server.js chunkText
chunkText(text, profile) ==
  LET cfg   == getChunkConfig(DefaultParam(profile))
      words == FilterBoolean(Split(text))
  IN  IF Len(words) = 0 THEN << >>
      ELSE IF LessEq(Len(words), cfg.sizeWords) THEN << Join(words) >>
      ELSE SlideChunks(words, cfg.sizeWords, cfg.overlapWords)

\* src/unnamed/part_000 chunkText (second file): no filter, and a short text
\* is returned as it came
chunkTextPart(text, profile) ==
  LET cfg   == chunkProfiles(DefaultParam(profile))
      words == Split(text)
  IN  IF LessEq(Len(words), cfg.sizeWords) THEN << text >>
      ELSE SlideChunks(words, cfg.sizeWords, cfg.overlapWords)

Impls == {"server", "part"}

ChunkTextOf(i, text, profile) ==
  IF i = "server" THEN chunkText(text, profile) ELSE chunkTextPart(text, profile)

\* the words array each implementation computes
WordsOf(i, text) ==
  IF i = "server" THEN FilterBoolean(Split(text)) ELSE Split(text)

ConfigOf(i, profile) ==
  IF i = "server" THEN getChunkConfig(DefaultParam(profile))
  ELSE chunkProfiles(DefaultParam(profile))

----------------------------------------------------------------------------
(***************************************************************************)
(* Input texts.  MkText(lead, n, gap, trail, ws) is the text of n one-     *)
(* letter words 1..n, separated by gap whitespace characters ws, with lead *)
(* whitespace characters before and trail after.                           *)
(***************************************************************************)
MkText(lead, n, gap, trail, ws) ==
  LET body == IF n = 0 THEN 0 ELSE n + (n - 1) * gap
  IN  AsSeq([p \in 1..(lead + body + trail) |->
         IF p <= lead \/ p > lead + body THEN ws
         ELSE LET q == p - lead - 1
              IN  IF q % (1 + gap) = 0 THEN (q \div (1 + gap)) + 1 ELSE ws])

ProfileNames == {Undefined, "short_form", "default", "long_book", "essay", "constructor"}

\* words.length <= sizeWords is false (and there is a word): the loop is
\* entered
LoopEntered(i, text, profile) ==
  LET n == Len(WordsOf(i, text))
  IN  n > 0 /\ ~LessEq(n, ConfigOf(i, profile).sizeWords)

\* the values of (start, end) at each chunks.push of the loop
WindowsOf(i, text, profile) ==
  LET cfg == ConfigOf(i, profile)
  IN  IF LoopEntered(i, text, profile)
      THEN Windows(Len(WordsOf(i, text)), cfg.sizeWords, cfg.overlapWords, 0)
      ELSE << >>

----------------------------------------------------------------------------
VARIABLES
  impl,      \* the implementation the process runs
  env,       \* which credentials process.env holds at process start
  listening, \* whether the module ran through to app.listen
  reqs,      \* the requests received so far, in arrival order
  store,     \* the rows of table kb_chunks, in insertion order
  chunkRun   \* one direct call of chunkText: its arguments and its result

vars == << impl, env, listening, reqs, store, chunkRun >>

ChunkIdle == [pc |-> "idle", text |-> << >>, profile |-> Undefined,
              chunks |-> << >>, wins |-> << >>]

----------------------------------------------------------------------------
(***************************************************************************)
(* The two external services.                                              *)
(*                                                                         *)
(* The embedding provider answers one call with a list of vectors, or the  *)
(* call throws.  A vector is a fixed-length tuple computed from the text.  *)
(* The store answers an insert with {data} after writing the rows, with    *)
(* {error} after writing nothing, or the call throws; "nodata" is the      *)
(* answer {data: null, error: null} of a call that was carried out.        *)
(***************************************************************************)
Embedding(x) ==
  << Len(x), IF Len(x) > 0 THEN x[1] ELSE Space, IF Len(x) > 0 THEN x[Len(x)] ELSE Space >>

\* embeddings[i] past the end of the array, or a destructured element of an
\* empty array: undefined
NoVector == << >>

ProviderOutcomes == {"ok", "short", "throw"}

\* response.data of embeddings.create for the given input texts: one vector
\* per text ("ok"), or one vector fewer ("short")
ProviderData(input, outcome) ==
  LET all == AsSeq([i \in 1..Len(input) |-> Embedding(input[i])])
  IN  IF outcome = "ok" THEN all ELSE SubSeq(all, 1, Len(all) - 1)

\* response.data.map(x => x.embedding)
embedText(input, outcome) == ProviderData(input, outcome)

\* arr[i] for a 0-based i
At(arr, i) == IF i + 1 \in 1..Len(arr) THEN arr[i + 1] ELSE NoVector

StoreOutcomes == {"ok", "error", "throw", "nodata"}

\* process.env at start: openai is OPENAI_API_KEY, supabase is SUPABASE_URL
\* with SUPABASE_SERVICE_ROLE_KEY; TRUE where set
Envs == [openai : BOOLEAN, supabase : BOOLEAN]

Configured(e) == e.openai /\ e.supabase

\* new OpenAI({apiKey}) and createClient(url, key) at module level, with no
\* test of the variables: with all of them set the clients are built and the
\* module reaches app.listen; with one undefined the constructor either
\* throws, which ends the process before app.listen, or builds a client
\* that has no credentials
Listens(e) == IF Configured(e) THEN {TRUE} ELSE {TRUE, FALSE}

\* what a call on the provider client can do: a client without its key gets
\* no embedding
ProviderReplies(e) == IF e.openai THEN ProviderOutcomes ELSE {"throw"}

\* what a call on the store client can do: a client without its endpoint
\* writes and reads nothing
StoreReplies(e) == IF e.supabase THEN StoreOutcomes ELSE {"error", "throw"}

\* the outcomes after which the rows of an insert are in the table
Written(outcome) == outcome \in {"ok", "nodata"}

\* the rows of one insert as the table holds them: the store gives each an id
Stored(rows, first) ==
  AsSeq([k \in 1..Len(rows) |-> [rows[k] EXCEPT !.id = first + k - 1]])

----------------------------------------------------------------------------
(***************************************************************************)
(* Requests, rows and responses.                                           *)
(***************************************************************************)
NewRequest(kind, body) ==
  [kind       |-> kind,
   body       |-> body,
   pc         |-> "received",
   chunks     |-> << >>,     \* const chunks
   embedCalls |-> << >>,     \* the inputs of the embeddings.create calls made
   provider   |-> "none",    \* how the embeddings.create call ended
   embeddings |-> << >>,     \* const embeddings / [embedding]
   calls      |-> << >>,     \* the insert calls issued, with their state
   rpc        |-> << >>,     \* the arguments of the rpc calls made
   data       |-> << >>,     \* the data the rpc call came back with
   responses  |-> << >>]     \* the responses sent

\* one insert call: the rows it carries, whether it has settled, and the
\* ids the store returned
InsertCall(rows) == [rows |-> rows, st |-> "pending", ids |-> << >>]

Row(req, course, type, subtopic, assignment_type, source_name, chunk_index, content, embedding) ==
  [id |-> 0, req |-> req,
   course |-> course, type |-> type, subtopic |-> subtopic,
   assignment_type |-> assignment_type, source_name |-> source_name,
   chunk_index |-> chunk_index, content |-> content, embedding |-> embedding,
   original_prompt |-> NoText, model_answer |-> NoText, outcome |-> Undefined,
   score |-> NoText, teacher_feedback |-> NoText]

Response(status, error) ==
  [status |-> status, success |-> FALSE, error |-> error, details |-> << >>,
   chunks_stored |-> 0, ids |-> << >>, id |-> 0, results |-> << >>]

\* the message of the exception a failed call throws
ThrownMessage == "request failed"
\* the message of the error object a failed store call returns
StoreErrorMessage == "store error"

Finish(q, resp) == [q EXCEPT !.pc = "done", !.responses = Append(@, resp)]

----------------------------------------------------------------------------
(***************************************************************************)
(* POST /ingest_content, src/server.js                                     *)
(***************************************************************************)
\* The handlers share nothing but the store, so two requests in flight show
\* every way one request's steps can fall between another's.
RequestIds == {1, 2}

IngestBody(course, type, raw_text, chunk_profile) ==
  [course |-> course, type |-> type, raw_text |-> raw_text,
   chunk_profile |-> chunk_profile, subtopic |-> Undefined,
   assignment_type |-> Undefined, source_name |-> "notes.txt"]

ShortText == MkText(1, 2, 2, 1, Space)
LongText  == MkText(0, 401, 1, 0, Space)

IngestBodies ==
  { IngestBody(Undefined, "resource", ShortText, Undefined),
    IngestBody("bio", Undefined, ShortText, Undefined),
    IngestBody("bio", "resource", NoText, Undefined),
    IngestBody("bio", "resource", << >>, Undefined),
    IngestBody("bio", "resource", << Space, Newline >>, Undefined),
    IngestBody("bio", "note", ShortText, Undefined),
    IngestBody("bio", "resource", ShortText, Undefined),
    IngestBody("math", "instruction", LongText, "short_form") }

\* lines 76-98: from the request to the await of embedText
IngestContentServer ==
  /\ impl = "server"
  /\ listening
  /\ Len(reqs) + 1 \in RequestIds
  /\ \E body \in IngestBodies :
       LET q      == NewRequest("ingest", body)
           chunks == chunkText(body.raw_text, body.chunk_profile)
       IN  reqs' = Append(reqs,
             IF FalsyText(body.raw_text) \/ Falsy(body.course) \/ Falsy(body.type)
               THEN Finish(q, Response(400, "Missing required fields: course, type, raw_text"))
             ELSE IF Len(chunks) = 0
               THEN Finish(q, Response(400, "No content produced"))
             ELSE [q EXCEPT !.pc = "embedding", !.chunks = chunks,
                            !.embedCalls = << chunks >>])
  /\ UNCHANGED << impl, env, listening, store, chunkRun >>

\* the rows numbered from 1 (chunk_index: i + 1)
IngestRowsOneBased(r, q, embeddings) ==
  AsSeq([k \in 1..Len(q.chunks) |->
     Row(r, q.body.course, q.body.type, q.body.subtopic, q.body.assignment_type,
         q.body.source_name, k, q.chunks[k], At(embeddings, k - 1))])

\* rows = chunks.map(...) of lines 100-109
IngestRowsServer(r, q, embeddings) ==
  AsSeq([k \in 1..Len(q.chunks) |->
     Row(r, q.body.course, q.body.type, q.body.subtopic, q.body.assignment_type,
         q.body.source_name, k - 1, q.chunks[k], At(embeddings, k - 1))])

\* lines 98-114 and 126-129: embedText settles; the rows go out in one insert
IngestEmbedSettleServer(r) ==
  /\ impl = "server"
  /\ reqs[r].kind = "ingest" /\ reqs[r].pc = "embedding"
  /\ \E outcome \in ProviderReplies(env) :
       LET q          == [reqs[r] EXCEPT !.provider = outcome]
           embeddings == embedText(q.chunks, outcome)
       IN  reqs' = [reqs EXCEPT ![r] =
             IF outcome = "throw"
               THEN Finish(q, Response(500, "Internal error"))
             ELSE [q EXCEPT !.pc = "inserting", !.embeddings = embeddings,
                            !.calls = << InsertCall(IngestRowsServer(r, q, embeddings)) >>]]
  /\ UNCHANGED << impl, env, listening, store, chunkRun >>

\* lines 111-129: the insert settles
IngestInsertSettleServer(r) ==
  /\ impl = "server"
  /\ reqs[r].kind = "ingest" /\ reqs[r].pc = "inserting"
  /\ \E outcome \in StoreReplies(env) :
       LET q      == reqs[r]
           rows   == q.calls[1].rows
           stored == Stored(rows, Len(store) + 1)
           ids    == AsSeq([k \in 1..Len(stored) |-> stored[k].id])
       IN  /\ store' = IF Written(outcome) THEN store \o stored ELSE store
           /\ reqs' = [reqs EXCEPT ![r] =
                CASE outcome = "throw" ->
                       Finish([q EXCEPT !.calls[1].st = "threw"],
                              Response(500, "Internal error"))
                  [] outcome = "error" ->
                       Finish([q EXCEPT !.calls[1].st = "error"],
                              Response(500, "Insert failed"))
                  [] outcome = "nodata" ->   \* data.map on null throws
                       Finish([q EXCEPT !.calls[1].st = "nodata"],
                              Response(500, "Internal error"))
                  [] OTHER ->
                       Finish([q EXCEPT !.calls[1].st = "ok", !.calls[1].ids = ids],
                              [Response(200, "") EXCEPT !.success = TRUE,
                                 !.chunks_stored = Len(rows), !.ids = ids])]
  /\ UNCHANGED << impl, env, listening, chunkRun >>

----------------------------------------------------------------------------
(***************************************************************************)
(* POST /ingest_content, src/unnamed/part_000 (second file)                *)
(***************************************************************************)
\* x || null
OrNull(v) == IF Falsy(v) THEN Null ELSE v

\* lines 237-266: from the request to the await of embedText
IngestContentPart ==
  /\ impl = "part"
  /\ listening
  /\ Len(reqs) + 1 \in RequestIds
  /\ \E body \in IngestBodies :
       LET q      == NewRequest("ingest", body)
           chunks == chunkTextPart(body.raw_text, body.chunk_profile)
       IN  reqs' = Append(reqs,
             IF Falsy(body.course) \/ Falsy(body.type) \/ FalsyText(body.raw_text)
               THEN Finish(q, Response(400,
                      "Missing required fields: course, type, and raw_text are required"))
             ELSE IF body.type \notin {"resource", "instruction"}
               THEN Finish(q, Response(400, "type must be \"resource\" or \"instruction\""))
             ELSE [q EXCEPT !.pc = "embedding", !.chunks = chunks,
                            !.embedCalls = << chunks >>])
  /\ UNCHANGED << impl, env, listening, store, chunkRun >>

\* the request fields kept in module-level variables, which the request
\* that arrived last has overwritten
IngestRowShared(r, q, embeddings, index) ==
  LET last == reqs[Len(reqs)]
  IN  Row(r, last.body.course, q.body.type, OrNull(q.body.subtopic),
          OrNull(q.body.assignment_type), OrNull(q.body.source_name),
          index, q.chunks[index + 1], At(embeddings, index))

\* the object of one insert, lines 272-281
IngestRowPart(r, q, embeddings, index) ==
  Row(r, q.body.course, q.body.type, OrNull(q.body.subtopic),
      OrNull(q.body.assignment_type), OrNull(q.body.source_name),
      index, q.chunks[index + 1], At(embeddings, index))

\* lines 266-285 and 303-305: embedText settles; one insert per chunk goes
\* out, all of them awaited together by Promise.all
IngestEmbedSettlePart(r) ==
  /\ impl = "part"
  /\ reqs[r].kind = "ingest" /\ reqs[r].pc = "embedding"
  /\ \E outcome \in ProviderReplies(env) :
       LET q          == [reqs[r] EXCEPT !.provider = outcome]
           embeddings == embedText(q.chunks, outcome)
       IN  reqs' = [reqs EXCEPT ![r] =
             IF outcome = "throw"
               THEN Finish(q, Response(500, ThrownMessage))
             ELSE [q EXCEPT !.pc = "inserting", !.embeddings = embeddings,
                     !.calls = AsSeq([k \in 1..Len(q.chunks) |->
                        InsertCall(<< IngestRowPart(r, q, embeddings, k - 1) >>)])]]
  /\ UNCHANGED << impl, env, listening, store, chunkRun >>

\* r.data[0].id of one settled insert (0 where the insert returned no row)
FirstId(c) == IF c.ids = << >> THEN 0 ELSE c.ids[1]

\* a Promise.race in the place of Promise.all: the first insert to settle
\* resolves it
RaceSettled(calls) == \E k \in 1..Len(calls) : calls[k].st # "pending"

\* line 285, await Promise.all(insertPromises): resolved once every insert
\* has settled
AllSettled(calls) == \A k \in 1..Len(calls) : calls[k].st # "pending"

\* the ids taken from the results in the reverse of the order of the inserts
IngestRespondReversed(q) ==
  LET errors == SelectSeq(q.calls, LAMBDA c : c.st = "error")
      ids    == AsSeq([k \in 1..Len(q.calls) |->
                   FirstId(q.calls[Len(q.calls) + 1 - k])])
  IN  IF Len(errors) > 0
        THEN Finish(q, [Response(500, "Failed to insert some chunks") EXCEPT
                          !.details = AsSeq([k \in 1..Len(errors) |-> StoreErrorMessage])])
      ELSE IF \E k \in 1..Len(q.calls) : q.calls[k].st = "nodata"
        THEN Finish(q, Response(500, ThrownMessage))   \* r.data[0] on null throws
      ELSE Finish(q, [Response(201, "") EXCEPT !.success = TRUE,
                        !.chunks_stored = Len(q.chunks), !.ids = ids])

\* lines 287-302: what the handler does once Promise.all has resolved
IngestRespondPart(q) ==
  LET errors == SelectSeq(q.calls, LAMBDA c : c.st = "error")
      ids    == AsSeq([k \in 1..Len(q.calls) |-> FirstId(q.calls[k])])
  IN  IF Len(errors) > 0
        THEN Finish(q, [Response(500, "Failed to insert some chunks") EXCEPT
                          !.details = AsSeq([k \in 1..Len(errors) |-> StoreErrorMessage])])
      ELSE IF \E k \in 1..Len(q.calls) : q.calls[k].st = "nodata"
        THEN Finish(q, Response(500, ThrownMessage))   \* r.data[0] on null throws
      ELSE Finish(q, [Response(201, "") EXCEPT !.success = TRUE,
                        !.chunks_stored = Len(q.chunks), !.ids = ids])

\* a catch on every insert: each insert that throws answers 500, whether
\* or not the request has been answered
IngestWriteSettleEachCaught(r, c) ==
  /\ impl = "part"
  /\ reqs[r].kind = "ingest"
  /\ c \in 1..Len(reqs[r].calls)
  /\ reqs[r].calls[c].st = "pending"
  /\ \E outcome \in StoreReplies(env) :
       LET q      == reqs[r]
           stored == Stored(q.calls[c].rows, Len(store) + 1)
           q1     == CASE outcome = "ok" ->
                            [q EXCEPT !.calls[c].st = "ok",
                                      !.calls[c].ids = << stored[1].id >>]
                       [] outcome = "error" -> [q EXCEPT !.calls[c].st = "error"]
                       [] outcome = "nodata" -> [q EXCEPT !.calls[c].st = "nodata"]
                       [] OTHER -> [q EXCEPT !.calls[c].st = "threw"]
           settled == AllSettled(q1.calls)
       IN  /\ store' = IF Written(outcome) THEN store \o stored ELSE store
           /\ reqs' = [reqs EXCEPT ![r] =
                IF outcome = "throw" THEN Finish(q1, Response(500, ThrownMessage))
                ELSE IF q.pc # "inserting" THEN q1
                ELSE IF settled THEN IngestRespondPart(q1)
                ELSE q1]
  /\ UNCHANGED << impl, env, listening, chunkRun >>

\* lines 270-305: one of the inserts settles.  Promise.all rejects with the
\* first insert that throws (the handler's catch answers at once, the other
\* inserts go on), and resolves when the last insert has settled.
IngestWriteSettlePart(r, c) ==
  /\ impl = "part"
  /\ reqs[r].kind = "ingest"
  /\ c \in 1..Len(reqs[r].calls)
  /\ reqs[r].calls[c].st = "pending"
  /\ \E outcome \in StoreReplies(env) :
       LET q      == reqs[r]
           stored == Stored(q.calls[c].rows, Len(store) + 1)
           q1     == CASE outcome = "ok" ->
                            [q EXCEPT !.calls[c].st = "ok",
                                      !.calls[c].ids = << stored[1].id >>]
                       [] outcome = "error" -> [q EXCEPT !.calls[c].st = "error"]
                       [] outcome = "nodata" -> [q EXCEPT !.calls[c].st = "nodata"]
                       [] OTHER -> [q EXCEPT !.calls[c].st = "threw"]
           settled == AllSettled(q1.calls)
       IN  /\ store' = IF Written(outcome) THEN store \o stored ELSE store
           /\ reqs' = [reqs EXCEPT ![r] =
                IF q.pc # "inserting" THEN q1
                ELSE IF outcome = "throw" THEN Finish(q1, Response(500, ThrownMessage))
                ELSE IF settled THEN IngestRespondPart(q1)
                ELSE q1]
  /\ UNCHANGED << impl, env, listening, chunkRun >>

----------------------------------------------------------------------------
(***************************************************************************)
(* POST /search_content                                                    *)
(***************************************************************************)
\* an absent types field, and the null the handlers pass for it; a types
\* array is the sequence of its strings
NoTypes   == << Undefined >>
NullTypes == << Null >>

\* an absent top_k or threshold; thresholds are in tenths
NoNumber == -1

SearchBody(course, query, types, top_k, threshold) ==
  [course |-> course, query |-> query, types |-> types, subtopic |-> Undefined,
   assignment_type |-> Undefined, top_k |-> top_k, threshold |-> threshold]

QueryText == << 5, 5 >>

SearchBodies ==
  { SearchBody(Undefined, NoText, NoTypes, NoNumber, NoNumber),
    SearchBody(Undefined, QueryText, NoTypes, NoNumber, NoNumber),
    SearchBody("", QueryText, << >>, NoNumber, 5),
    SearchBody("math", QueryText, << "instruction" >>, 1, NoNumber) }

\* a destructuring default (top_k = 8) applies to undefined only
NumberOr(v, d) == IF v = NoNumber THEN d ELSE v

RpcArgs(query_embedding, course, types, subtopic, assignment_type, limit, threshold) ==
  [query_embedding |-> query_embedding, course |-> course, types |-> types,
   subtopic |-> subtopic, assignment_type |-> assignment_type,
   limit |-> limit, threshold |-> threshold]

\* the rows the store's similarity function considers under the categorical
\* filters of args: a null filter does not constrain, a types array admits
\* the rows whose type is one of its elements
Candidates(args, rows) ==
  SelectSeq(rows, LAMBDA row :
    /\ args.course = Null \/ row.course = args.course
    /\ args.types = NullTypes \/ \E k \in 1..Len(args.types) : row.type = args.types[k]
    /\ args.subtopic = Null \/ row.subtopic = args.subtopic
    /\ args.assignment_type = Null \/ row.assignment_type = args.assignment_type)

\* the store's similarity function: the candidates, cut to the count cap
MatchKbChunks(args, rows) ==
  LET c == Candidates(args, rows)
  IN  SubSeq(c, 1, Min(Len(c), args.limit))

\* src/server.js lines 134-149: from the request to the await of embedText
SearchContentServer ==
  /\ impl = "server"
  /\ listening
  /\ Len(reqs) + 1 \in RequestIds
  /\ \E body \in SearchBodies :
       LET q == NewRequest("search", body)
       IN  reqs' = Append(reqs,
             IF FalsyText(body.query)
               THEN Finish(q, Response(400, "Missing query text"))
             ELSE [q EXCEPT !.pc = "embedding", !.embedCalls = << << body.query >> >>])
  /\ UNCHANGED << impl, env, listening, store, chunkRun >>

\* src/server.js lines 151-159: the arguments of match_kb_chunks
SearchArgsServer(body, queryEmbedding) ==
  RpcArgs(queryEmbedding,
          OrNull(body.course),
          IF body.types # NoTypes /\ Len(body.types) > 0 THEN body.types ELSE NullTypes,
          OrNull(body.subtopic),
          OrNull(body.assignment_type),
          NumberOr(body.top_k, 8),
          NumberOr(body.threshold, 7))

\* src/server.js lines 149-159 and 170-173: embedText settles, the rpc goes out
SearchEmbedSettleServer(r) ==
  /\ impl = "server"
  /\ reqs[r].kind = "search" /\ reqs[r].pc = "embedding"
  /\ \E outcome \in ProviderReplies(env) :
       LET q          == [reqs[r] EXCEPT !.provider = outcome]
           embeddings == embedText(<< q.body.query >>, outcome)
       IN  reqs' = [reqs EXCEPT ![r] =
             IF outcome = "throw"
               THEN Finish(q, Response(500, "Internal error"))
             ELSE [q EXCEPT !.pc = "searching", !.embeddings = embeddings,
                            !.rpc = << SearchArgsServer(q.body, At(embeddings, 0)) >>]]
  /\ UNCHANGED << impl, env, listening, store, chunkRun >>

\* src/server.js lines 161-173: the rpc settles
SearchRpcSettleServer(r) ==
  /\ impl = "server"
  /\ reqs[r].kind = "search" /\ reqs[r].pc = "searching"
  /\ \E outcome \in StoreReplies(env) :
       LET q == reqs[r]
       IN  reqs' = [reqs EXCEPT ![r] =
             CASE outcome = "throw" -> Finish(q, Response(500, "Internal error"))
               [] outcome = "error" -> Finish(q, Response(500, "Search failed"))
               [] outcome = "nodata" ->   \* data || []
                    Finish(q, [Response(200, "") EXCEPT !.success = TRUE])
               [] OTHER -> Finish([q EXCEPT !.data = MatchKbChunks(q.rpc[1], store)],
                                  [Response(200, "") EXCEPT !.success = TRUE,
                                     !.results = MatchKbChunks(q.rpc[1], store)])]
  /\ UNCHANGED << impl, env, listening, store, chunkRun >>

\* part_000 lines 310-327: from the request to the await of embedText
SearchContentPart ==
  /\ impl = "part"
  /\ listening
  /\ Len(reqs) + 1 \in RequestIds
  /\ \E body \in SearchBodies :
       LET q == NewRequest("search", body)
       IN  reqs' = Append(reqs,
             IF FalsyText(body.query)
               THEN Finish(q, Response(400, "Query is required"))
             ELSE [q EXCEPT !.pc = "embedding", !.embedCalls = << << body.query >> >>])
  /\ UNCHANGED << impl, env, listening, store, chunkRun >>

\* part_000 lines 330-338: the arguments of match_kb_chunks; an array, empty
\* or not, is truthy
SearchArgsPart(body, queryEmbedding) ==
  RpcArgs(queryEmbedding,
          OrNull(body.course),
          IF body.types # NoTypes THEN body.types ELSE NullTypes,
          OrNull(body.subtopic),
          OrNull(body.assignment_type),
          NumberOr(body.top_k, 10),
          NumberOr(body.threshold, 7))

\* part_000 lines 327-338 and 345-347: embedText settles, the rpc goes out
SearchEmbedSettlePart(r) ==
  /\ impl = "part"
  /\ reqs[r].kind = "search" /\ reqs[r].pc = "embedding"
  /\ \E outcome \in ProviderReplies(env) :
       LET q          == [reqs[r] EXCEPT !.provider = outcome]
           embeddings == embedText(<< q.body.query >>, outcome)
       IN  reqs' = [reqs EXCEPT ![r] =
             IF outcome = "throw"
               THEN Finish(q, Response(500, ThrownMessage))
             ELSE [q EXCEPT !.pc = "searching", !.embeddings = embeddings,
                            !.rpc = << SearchArgsPart(q.body, At(embeddings, 0)) >>]]
  /\ UNCHANGED << impl, env, listening, store, chunkRun >>

\* a search that consumes what it returns: the matched rows leave the table
SearchRpcSettleConsuming(r) ==
  /\ impl = "part"
  /\ reqs[r].kind = "search" /\ reqs[r].pc = "searching"
  /\ \E outcome \in StoreReplies(env) :
       LET q     == reqs[r]
           found == MatchKbChunks(q.rpc[1], store)
       IN  /\ reqs' = [reqs EXCEPT ![r] =
                CASE outcome = "throw" -> Finish(q, Response(500, ThrownMessage))
                  [] outcome = "error" -> Finish(q, Response(500, StoreErrorMessage))
                  [] outcome = "nodata" ->
                       Finish(q, [Response(200, "") EXCEPT !.success = TRUE])
                  [] OTHER -> Finish([q EXCEPT !.data = found],
                                     [Response(200, "") EXCEPT !.success = TRUE,
                                        !.results = found])]
           /\ store' = IF outcome = "ok"
                         THEN SelectSeq(store, LAMBDA row :
                                \A k \in 1..Len(found) : found[k].id # row.id)
                         ELSE store
  /\ UNCHANGED << impl, env, listening, chunkRun >>

\* part_000 lines 340-347: the rpc settles
SearchRpcSettlePart(r) ==
  /\ impl = "part"
  /\ reqs[r].kind = "search" /\ reqs[r].pc = "searching"
  /\ \E outcome \in StoreReplies(env) :
       LET q == reqs[r]
       IN  reqs' = [reqs EXCEPT ![r] =
             CASE outcome = "throw" -> Finish(q, Response(500, ThrownMessage))
               [] outcome = "error" -> Finish(q, Response(500, StoreErrorMessage))
               [] outcome = "nodata" ->   \* results: null
                    Finish(q, [Response(200, "") EXCEPT !.success = TRUE])
               [] OTHER -> Finish([q EXCEPT !.data = MatchKbChunks(q.rpc[1], store)],
                                  [Response(200, "") EXCEPT !.success = TRUE,
                                     !.results = MatchKbChunks(q.rpc[1], store)])]
  /\ UNCHANGED << impl, env, listening, store, chunkRun >>

----------------------------------------------------------------------------
(***************************************************************************)
(* POST /log_completion_result                                             *)
(***************************************************************************)
LogBody(course, assignment_type, model_answer, outcome) ==
  [course |-> course, assignment_type |-> assignment_type, subtopic |-> Undefined,
   original_prompt |-> << 6 >>, model_answer |-> model_answer, outcome |-> outcome,
   score |-> NoText, teacher_feedback |-> NoText]

AnswerText == << 7, Space, 8 >>

Outcomes == {Undefined, "success", "failure", "maybe", JsFalse, JsTrue}

LogBodies ==
  { LogBody(Undefined, "essay", AnswerText, "success"),
    LogBody("bio", Undefined, AnswerText, "success"),
    LogBody("bio", "essay", NoText, "success") }
  \cup { LogBody("bio", "essay", AnswerText, o) : o \in Outcomes }

\* src/server.js lines 196-197
LogTypeServer(outcome) ==
  IF outcome = "success" THEN "completion_good" ELSE "completion_bad"

\* part_000 line 372: the truthiness of outcome decides
LogTypePart(outcome) ==
  IF ~Falsy(outcome) THEN "completion_good" ELSE "completion_bad"

\* src/server.js lines 178-199: from the request to the await of embedText
LogCompletionResultServer ==
  /\ impl = "server"
  /\ listening
  /\ Len(reqs) + 1 \in RequestIds
  /\ \E body \in LogBodies :
       LET q == NewRequest("log", body)
       IN  reqs' = Append(reqs,
             IF Falsy(body.course) \/ Falsy(body.assignment_type)
                  \/ FalsyText(body.model_answer) \/ Falsy(body.outcome)
               THEN Finish(q, Response(400, "Missing required fields"))
             ELSE [q EXCEPT !.pc = "embedding",
                            !.embedCalls = << << body.model_answer >> >>])
  /\ UNCHANGED << impl, env, listening, store, chunkRun >>

\* src/server.js lines 201-214
LogRowServer(r, body, answerEmbedding) ==
  [Row(r, body.course, LogTypeServer(body.outcome), body.subtopic,
       body.assignment_type, Undefined, 0, body.model_answer, answerEmbedding)
   EXCEPT !.original_prompt = body.original_prompt,
          !.model_answer = body.model_answer,
          !.outcome = body.outcome,
          !.score = body.score,
          !.teacher_feedback = body.teacher_feedback]

\* src/server.js lines 199-219 and 230-233: embedText settles, the row goes out
LogEmbedSettleServer(r) ==
  /\ impl = "server"
  /\ reqs[r].kind = "log" /\ reqs[r].pc = "embedding"
  /\ \E outcome \in ProviderReplies(env) :
       LET q          == [reqs[r] EXCEPT !.provider = outcome]
           embeddings == embedText(<< q.body.model_answer >>, outcome)
       IN  reqs' = [reqs EXCEPT ![r] =
             IF outcome = "throw"
               THEN Finish(q, Response(500, "Internal error"))
             ELSE [q EXCEPT !.pc = "inserting", !.embeddings = embeddings,
                     !.calls = << InsertCall(<< LogRowServer(r, q.body, At(embeddings, 0)) >>) >>]]
  /\ UNCHANGED << impl, env, listening, store, chunkRun >>

\* src/server.js lines 216-233: the insert settles
LogInsertSettleServer(r) ==
  /\ impl = "server"
  /\ reqs[r].kind = "log" /\ reqs[r].pc = "inserting"
  /\ \E outcome \in StoreReplies(env) :
       LET q      == reqs[r]
           stored == Stored(q.calls[1].rows, Len(store) + 1)
       IN  /\ store' = IF Written(outcome) THEN store \o stored ELSE store
           /\ reqs' = [reqs EXCEPT ![r] =
                CASE outcome = "throw" ->
                       Finish([q EXCEPT !.calls[1].st = "threw"],
                              Response(500, "Internal error"))
                  [] outcome = "error" ->
                       Finish([q EXCEPT !.calls[1].st = "error"],
                              Response(500, "Insert failed"))
                  [] outcome = "nodata" ->   \* data[0] on null throws
                       Finish([q EXCEPT !.calls[1].st = "nodata"],
                              Response(500, "Internal error"))
                  [] OTHER ->
                       Finish([q EXCEPT !.calls[1].st = "ok",
                                        !.calls[1].ids = << stored[1].id >>],
                              [Response(200, "") EXCEPT !.success = TRUE,
                                 !.id = stored[1].id])]
  /\ UNCHANGED << impl, env, listening, chunkRun >>

\* JSON.stringify of an object of text fields: the fields that are not
\* undefined, each behind a code naming its key, between braces
LBrace == -3
RBrace == -4
Comma  == -5
KeyCode(k) == -10 - k

RECURSIVE StringifyFields(_, _)
StringifyFields(fields, k) ==
  IF k > Len(fields) THEN << >>
  ELSE LET rest == StringifyFields(fields, k + 1)
       IN  IF fields[k] = NoText THEN rest
           ELSE << KeyCode(k) >> \o fields[k]
                \o (IF rest = << >> THEN << >> ELSE << Comma >> \o rest)

Stringify(fields) == << LBrace >> \o StringifyFields(fields, 1) \o << RBrace >>

\* part_000 lines 352-375: from the request to the await of embedText
LogCompletionResultPart ==
  /\ impl = "part"
  /\ listening
  /\ Len(reqs) + 1 \in RequestIds
  /\ \E body \in LogBodies :
       LET q == NewRequest("log", body)
       IN  reqs' = Append(reqs,
             IF Falsy(body.course) \/ FalsyText(body.model_answer)
                  \/ body.outcome = Undefined
               THEN Finish(q, Response(400,
                      "Missing required fields: course, model_answer, and outcome are required"))
             ELSE [q EXCEPT !.pc = "embedding",
                            !.embedCalls = << << body.model_answer >> >>])
  /\ UNCHANGED << impl, env, listening, store, chunkRun >>

\* part_000 lines 377-397
LogRowPart(r, body, embedding) ==
  Row(r, body.course, LogTypePart(body.outcome), OrNull(body.subtopic),
      OrNull(body.assignment_type), Null, 0,
      Stringify(<< body.original_prompt, body.model_answer, body.score,
                   body.teacher_feedback >>),
      embedding)

\* a handler that goes on without a vector when embedText throws
LogEmbedSettleSwallowing(r) ==
  /\ impl = "part"
  /\ reqs[r].kind = "log" /\ reqs[r].pc = "embedding"
  /\ \E outcome \in ProviderReplies(env) :
       LET q          == [reqs[r] EXCEPT !.provider = outcome]
           embeddings == IF outcome = "throw" THEN << >>
                         ELSE embedText(<< q.body.model_answer >>, outcome)
       IN  reqs' = [reqs EXCEPT ![r] =
             [q EXCEPT !.pc = "inserting", !.embeddings = embeddings,
                !.calls = << InsertCall(<< LogRowPart(r, q.body, At(embeddings, 0)) >>) >>]]
  /\ UNCHANGED << impl, env, listening, store, chunkRun >>

\* part_000 lines 375-398 and 408-410: embedText settles, the row goes out
LogEmbedSettlePart(r) ==
  /\ impl = "part"
  /\ reqs[r].kind = "log" /\ reqs[r].pc = "embedding"
  /\ \E outcome \in ProviderReplies(env) :
       LET q          == [reqs[r] EXCEPT !.provider = outcome]
           embeddings == embedText(<< q.body.model_answer >>, outcome)
       IN  reqs' = [reqs EXCEPT ![r] =
             IF outcome = "throw"
               THEN Finish(q, Response(500, ThrownMessage))
             ELSE [q EXCEPT !.pc = "inserting", !.embeddings = embeddings,
                     !.calls = << InsertCall(<< LogRowPart(r, q.body, At(embeddings, 0)) >>) >>]]
  /\ UNCHANGED << impl, env, listening, store, chunkRun >>

\* part_000 lines 386-410: the insert settles
LogInsertSettlePart(r) ==
  /\ impl = "part"
  /\ reqs[r].kind = "log" /\ reqs[r].pc = "inserting"
  /\ \E outcome \in StoreReplies(env) :
       LET q      == reqs[r]
           stored == Stored(q.calls[1].rows, Len(store) + 1)
       IN  /\ store' = IF Written(outcome) THEN store \o stored ELSE store
           /\ reqs' = [reqs EXCEPT ![r] =
                CASE outcome = "throw" ->
                       Finish([q EXCEPT !.calls[1].st = "threw"],
                              Response(500, ThrownMessage))
                  [] outcome = "error" ->
                       Finish([q EXCEPT !.calls[1].st = "error"],
                              Response(500, StoreErrorMessage))
                  [] outcome = "nodata" ->   \* data[0] on null throws
                       Finish([q EXCEPT !.calls[1].st = "nodata"],
                              Response(500, ThrownMessage))
                  [] OTHER ->
                       Finish([q EXCEPT !.calls[1].st = "ok",
                                        !.calls[1].ids = << stored[1].id >>],
                              [Response(201, "") EXCEPT !.success = TRUE,
                                 !.id = stored[1].id])]
  /\ UNCHANGED << impl, env, listening, chunkRun >>

----------------------------------------------------------------------------
\* a request sent to a process that ended before app.listen: no handler
\* runs and nothing answers
RequestUnserved ==
  /\ ~listening
  /\ Len(reqs) + 1 \in RequestIds
  /\ \E q \in { NewRequest("ingest", IngestBody("bio", "resource", ShortText, Undefined)),
                 NewRequest("search", SearchBody(Undefined, QueryText, NoTypes, NoNumber, NoNumber)),
                 NewRequest("log", LogBody("bio", "essay", AnswerText, "success")) } :
       reqs' = Append(reqs, [q EXCEPT !.pc = "unserved"])
  /\ UNCHANGED << impl, env, listening, store, chunkRun >>

Init ==
  /\ impl \in Impls
  /\ env \in Envs
  /\ listening \in Listens(env)
  /\ reqs = << >>
  /\ store = << >>
  /\ chunkRun = ChunkIdle

Next ==
  \/ RequestUnserved
  \/ IngestContentServer
  \/ IngestContentPart
  \/ SearchContentServer
  \/ SearchContentPart
  \/ LogCompletionResultServer
  \/ LogCompletionResultPart
  \/ \E r \in DOMAIN reqs : IngestEmbedSettleServer(r)
  \/ \E r \in DOMAIN reqs : IngestInsertSettleServer(r)
  \/ \E r \in DOMAIN reqs : IngestEmbedSettlePart(r)
  \/ \E r \in DOMAIN reqs : \E c \in DOMAIN reqs[r].calls : IngestWriteSettlePart(r, c)
  \/ \E r \in DOMAIN reqs : SearchEmbedSettleServer(r)
  \/ \E r \in DOMAIN reqs : SearchRpcSettleServer(r)
  \/ \E r \in DOMAIN reqs : SearchEmbedSettlePart(r)
  \/ \E r \in DOMAIN reqs : SearchRpcSettlePart(r)
  \/ \E r \in DOMAIN reqs : LogEmbedSettleServer(r)
  \/ \E r \in DOMAIN reqs : LogInsertSettleServer(r)
  \/ \E r \in DOMAIN reqs : LogEmbedSettlePart(r)
  \/ \E r \in DOMAIN reqs : LogInsertSettlePart(r)

Spec == Init /\ [][Next]_vars

\* a call to the provider or to the store that is pending settles
Settle ==
  \/ \E r \in DOMAIN reqs : IngestEmbedSettleServer(r)
  \/ \E r \in DOMAIN reqs : IngestInsertSettleServer(r)
  \/ \E r \in DOMAIN reqs : IngestEmbedSettlePart(r)
  \/ \E r \in DOMAIN reqs : \E c \in DOMAIN reqs[r].calls : IngestWriteSettlePart(r, c)
  \/ \E r \in DOMAIN reqs : SearchEmbedSettleServer(r)
  \/ \E r \in DOMAIN reqs : SearchRpcSettleServer(r)
  \/ \E r \in DOMAIN reqs : SearchEmbedSettlePart(r)
  \/ \E r \in DOMAIN reqs : SearchRpcSettlePart(r)
  \/ \E r \in DOMAIN reqs : LogEmbedSettleServer(r)
  \/ \E r \in DOMAIN reqs : LogInsertSettleServer(r)
  \/ \E r \in DOMAIN reqs : LogEmbedSettlePart(r)
  \/ \E r \in DOMAIN reqs : LogInsertSettlePart(r)

\* every awaited call settles, and the event loop then runs the handler on:
\* the steps after an await are not put off for ever.  Requests arrive or
\* not as the clients please.
FairSpec == Spec /\ WF_vars(Settle)

----------------------------------------------------------------------------
(***************************************************************************)
(* src/unnamed/part_000, first file (lines 1-156): the earlier variant of  *)
(* the three routes, on tables content and completion_logs.  Its clients   *)
(* are built only when their environment variables are set, and are null   *)
(* otherwise; every route tests them first.                                *)
(***************************************************************************)
NotConfiguredMessage == "Service not configured. Please check environment variables."

\* metadata || {}
OrEmptyObject(v) == IF Falsy(v) THEN "{}" ELSE v

EarlyIngestBody(content, metadata) == [content |-> content, metadata |-> metadata]

EarlyIngestBodies ==
  { EarlyIngestBody(NoText, Undefined),
    EarlyIngestBody(AnswerText, Undefined),
    EarlyIngestBody(ShortText, "meta") }

\* the handler reads query and limit; top_k and threshold are what a caller
\* of the other variants sends
EarlySearchBody(query, limit, top_k, threshold) ==
  [query |-> query, limit |-> limit, top_k |-> top_k, threshold |-> threshold]

EarlySearchBodies ==
  { EarlySearchBody(NoText, NoNumber, NoNumber, NoNumber),
    EarlySearchBody(QueryText, NoNumber, NoNumber, NoNumber),
    EarlySearchBody(QueryText, 1, NoNumber, NoNumber),
    EarlySearchBody(QueryText, NoNumber, 1, 5) }

EarlyLogBody(completion_id, result, metadata) ==
  [completion_id |-> completion_id, result |-> result, metadata |-> metadata]

EarlyLogBodies ==
  { EarlyLogBody(Undefined, "pass", Undefined),
    EarlyLogBody("c1", Undefined, Undefined),
    EarlyLogBody("c1", JsFalse, Undefined),
    EarlyLogBody("c2", "pass", "meta") }

\* a row of table content or of table completion_logs
EarlyRow(req, table, content, metadata, embedding, completion_id, result) ==
  [id |-> 0, req |-> req, table |-> table, content |-> content,
   metadata |-> metadata, embedding |-> embedding,
   completion_id |-> completion_id, result |-> result]

\* lines 33-47: from the request to the await of embeddings.create
IngestContentEarly ==
  /\ impl = "early"
  /\ listening
  /\ Len(reqs) + 1 \in RequestIds
  /\ \E body \in EarlyIngestBodies :
       LET q == NewRequest("ingest", body)
       IN  reqs' = Append(reqs,
             IF ~env.supabase \/ ~env.openai
               THEN Finish(q, Response(503, NotConfiguredMessage))
             ELSE IF FalsyText(body.content)
               THEN Finish(q, Response(400, "Content is required"))
             ELSE [q EXCEPT !.pc = "embedding", !.embedCalls = << << body.content >> >>])
  /\ UNCHANGED << impl, env, listening, store, chunkRun >>

\* lines 47-62 and 69-71: embeddings.create settles, the row goes out;
\* data[0].embedding throws when data is empty
IngestEmbedSettleEarly(r) ==
  /\ impl = "early"
  /\ reqs[r].kind = "ingest" /\ reqs[r].pc = "embedding"
  /\ \E outcome \in ProviderReplies(env) :
       LET q    == [reqs[r] EXCEPT !.provider = outcome]
           data == ProviderData(<< q.body.content >>, outcome)
       IN  reqs' = [reqs EXCEPT ![r] =
             IF outcome = "throw" \/ data = << >>
               THEN Finish(q, Response(500, ThrownMessage))
             ELSE [q EXCEPT !.pc = "inserting", !.embeddings = data,
                     !.calls = << InsertCall(<< EarlyRow(r, "content", q.body.content,
                                     OrEmptyObject(q.body.metadata), data[1],
                                     Undefined, Undefined) >>) >>]]
  /\ UNCHANGED << impl, env, listening, store, chunkRun >>

\* lines 54-71 and 135-142: the insert of one row settles
InsertSettleEarly(r) ==
  /\ impl = "early"
  /\ reqs[r].pc = "inserting"
  /\ \E outcome \in StoreReplies(env) :
       LET q      == reqs[r]
           stored == Stored(q.calls[1].rows, Len(store) + 1)
       IN  /\ store' = IF Written(outcome) THEN store \o stored ELSE store
           /\ reqs' = [reqs EXCEPT ![r] =
                CASE outcome = "throw" ->
                       Finish([q EXCEPT !.calls[1].st = "threw"],
                              Response(500, ThrownMessage))
                  [] outcome = "error" ->
                       Finish([q EXCEPT !.calls[1].st = "error"],
                              Response(500, StoreErrorMessage))
                  [] outcome = "nodata" ->   \* data: null
                       Finish([q EXCEPT !.calls[1].st = "nodata"],
                              [Response(201, "") EXCEPT !.success = TRUE])
                  [] OTHER ->
                       Finish([q EXCEPT !.calls[1].st = "ok",
                                        !.calls[1].ids = << stored[1].id >>],
                              [Response(201, "") EXCEPT !.success = TRUE,
                                 !.results = stored])]
  /\ UNCHANGED << impl, env, listening, chunkRun >>

\* lines 75-89: from the request to the await of embeddings.create
SearchContentEarly ==
  /\ impl = "early"
  /\ listening
  /\ Len(reqs) + 1 \in RequestIds
  /\ \E body \in EarlySearchBodies :
       LET q == NewRequest("search", body)
       IN  reqs' = Append(reqs,
             IF ~env.supabase \/ ~env.openai
               THEN Finish(q, Response(503, NotConfiguredMessage))
             ELSE IF FalsyText(body.query)
               THEN Finish(q, Response(400, "Query is required"))
             ELSE [q EXCEPT !.pc = "embedding", !.embedCalls = << << body.query >> >>])
  /\ UNCHANGED << impl, env, listening, store, chunkRun >>

\* lines 97-101: the arguments of match_content; the threshold is the
\* literal 0.7 and the count is limit, 10 when the body has none
SearchArgsEarly(body, queryEmbedding) ==
  RpcArgs(queryEmbedding, Null, NullTypes, Null, Null, NumberOr(body.limit, 10), 7)

\* the store's function match_content: the rows of table content, cut to
\* the count cap
MatchContent(args, rows) ==
  LET c == SelectSeq(rows, LAMBDA row : row.table = "content")
  IN  SubSeq(c, 1, Min(Len(c), args.limit))

\* lines 89-101 and 108-110: embeddings.create settles, the rpc goes out
SearchEmbedSettleEarly(r) ==
  /\ impl = "early"
  /\ reqs[r].kind = "search" /\ reqs[r].pc = "embedding"
  /\ \E outcome \in ProviderReplies(env) :
       LET q    == [reqs[r] EXCEPT !.provider = outcome]
           data == ProviderData(<< q.body.query >>, outcome)
       IN  reqs' = [reqs EXCEPT ![r] =
             IF outcome = "throw" \/ data = << >>
               THEN Finish(q, Response(500, ThrownMessage))
             ELSE [q EXCEPT !.pc = "searching", !.embeddings = data,
                            !.rpc = << SearchArgsEarly(q.body, data[1]) >>]]
  /\ UNCHANGED << impl, env, listening, store, chunkRun >>

\* lines 97-110: the rpc settles
SearchRpcSettleEarly(r) ==
  /\ impl = "early"
  /\ reqs[r].kind = "search" /\ reqs[r].pc = "searching"
  /\ \E outcome \in StoreReplies(env) :
       LET q == reqs[r]
       IN  reqs' = [reqs EXCEPT ![r] =
             CASE outcome = "throw" -> Finish(q, Response(500, ThrownMessage))
               [] outcome = "error" -> Finish(q, Response(500, StoreErrorMessage))
               [] outcome = "nodata" ->   \* data: null
                    Finish(q, [Response(200, "") EXCEPT !.success = TRUE])
               [] OTHER -> Finish([q EXCEPT !.data = MatchContent(q.rpc[1], store)],
                                  [Response(200, "") EXCEPT !.success = TRUE,
                                     !.results = MatchContent(q.rpc[1], store)])]
  /\ UNCHANGED << impl, env, listening, store, chunkRun >>

\* lines 114-135: from the request to the await of the insert; the route
\* uses the store client only, and tests that one only
LogCompletionResultEarly ==
  /\ impl = "early"
  /\ listening
  /\ Len(reqs) + 1 \in RequestIds
  /\ \E body \in EarlyLogBodies :
       LET q == NewRequest("log", body)
       IN  reqs' = Append(reqs,
             IF ~env.supabase
               THEN Finish(q, Response(503, NotConfiguredMessage))
             ELSE IF Falsy(body.completion_id) \/ body.result = Undefined
               THEN Finish(q, Response(400, "completion_id and result are required"))
             ELSE [q EXCEPT !.pc = "inserting",
                     !.calls = << InsertCall(<< EarlyRow(Len(reqs) + 1, "completion_logs",
                                     NoText, OrEmptyObject(body.metadata), NoVector,
                                     body.completion_id, body.result) >>) >>])
  /\ UNCHANGED << impl, env, listening, store, chunkRun >>

\* the null clients need no constructor, so the module always reaches
\* app.listen
InitEarly ==
  /\ impl = "early"
  /\ env \in Envs
  /\ listening = TRUE
  /\ reqs = << >>
  /\ store = << >>
  /\ chunkRun = ChunkIdle

NextEarly ==
  \/ IngestContentEarly
  \/ SearchContentEarly
  \/ LogCompletionResultEarly
  \/ \E r \in DOMAIN reqs : IngestEmbedSettleEarly(r)
  \/ \E r \in DOMAIN reqs : InsertSettleEarly(r)
  \/ \E r \in DOMAIN reqs : SearchEmbedSettleEarly(r)
  \/ \E r \in DOMAIN reqs : SearchRpcSettleEarly(r)

EarlySpec == InitEarly /\ [][NextEarly]_vars

----------------------------------------------------------------------------
(***************************************************************************)
(* The chunker on its own: chunkText applied to texts of chosen word       *)
(* counts and whitespace shapes, under every profile name.                 *)
(***************************************************************************)
MaxPad == 1
MaxGap == 2

WordCounts == {0, 1, 2, 400, 401, 901, 1000, 1401}

ChunkTexts ==
  { MkText(lead, n, gap, trail, IF (lead + gap) % 2 = 0 THEN Newline ELSE Space) :
      lead \in 0..MaxPad, n \in WordCounts, gap \in 1..MaxGap,
      trail \in 0..MaxPad }
  \cup { << 1, 2, Space, Newline, 3, 4, 5, Space >> }

InitChunk ==
  /\ impl \in Impls
  /\ env = [openai |-> TRUE, supabase |-> TRUE]
  /\ listening = TRUE
  /\ reqs = << >>
  /\ store = << >>
  /\ chunkRun = ChunkIdle

\* chunkText(text, profile) is entered
ChunkCall ==
  /\ chunkRun.pc = "idle"
  /\ \E text \in ChunkTexts, profile \in ProfileNames :
       chunkRun' = [ChunkIdle EXCEPT !.pc = "called", !.text = text,
                                     !.profile = profile]
  /\ UNCHANGED << impl, env, listening, reqs, store >>

\* chunkText returns
ChunkReturn ==
  /\ chunkRun.pc = "called"
  /\ chunkRun' = [chunkRun EXCEPT
       !.pc = "returned",
       !.chunks = ChunkTextOf(impl, chunkRun.text, chunkRun.profile),
       !.wins = WindowsOf(impl, chunkRun.text, chunkRun.profile)]
  /\ UNCHANGED << impl, env, listening, reqs, store >>

NextChunk == ChunkCall \/ ChunkReturn

ChunkSpec == InitChunk /\ [][NextChunk]_vars

\* the words of a text as the specification counts them
RealWords(text) == FilterBoolean(Split(text))

\* C1: for a text with more words than the profile's sizeWords, the windows
\* of the produced chunks cover every word position 0..total_words-1, the
\* last window ends at total_words, and each chunk is the words of its window
C1_Coverage ==
  (chunkRun.pc = "returned"
     /\ Less(ConfigOf(impl, chunkRun.profile).sizeWords, Len(RealWords(chunkRun.text))))
  => LET words == WordsOf(impl, chunkRun.text)
         n     == Len(words)
         wins  == chunkRun.wins
         out   == chunkRun.chunks
     IN  /\ Len(out) = Len(wins)
         /\ Len(out) >= 1
         /\ \A i \in 0..(n - 1) :
              \E k \in 1..Len(wins) : wins[k][1] <= i /\ i < wins[k][2]
         /\ wins[Len(wins)][2] = n
         /\ \A k \in 1..Len(out) :
              WordsOf(impl, out[k]) = SubSeq(words, wins[k][1] + 1, wins[k][2])

\* C1 witness: a call that returned three chunks for a 1000-word text
C1_Witness ==
  /\ chunkRun.pc = "returned"
  /\ Len(RealWords(chunkRun.text)) = 1000
  /\ Len(chunkRun.chunks) = 3

\* C2: a text of at least one and at most sizeWords words yields exactly one
\* chunk, the text's words joined by single spaces
C2_SingleNormalizedChunk ==
  (chunkRun.pc = "returned"
     /\ Len(RealWords(chunkRun.text)) >= 1
     /\ LessEq(Len(RealWords(chunkRun.text)), ConfigOf(impl, chunkRun.profile).sizeWords))
  => chunkRun.chunks = << Join(RealWords(chunkRun.text)) >>

----------------------------------------------------------------------------
(***************************************************************************)
(* Properties of the three routes.                                         *)
(***************************************************************************)
\* the rows of the table that request r wrote
RowsOf(r) == SelectSeq(store, LAMBDA row : row.req = r)

\* the request has been answered with exactly the status given, and only so
AnsweredOnly(q, status) ==
  \A k \in 1..Len(q.responses) : q.responses[k].status = status

\* no call to the embedding provider or to the store was made for q
NoExternalCall(q) == q.embedCalls = << >> /\ q.calls = << >> /\ q.rpc = << >>

\* a text that is empty or whitespace only
IsBlank(t) == t # NoText /\ \A i \in 1..Len(t) : IsSpace(t[i])

\* C3: an ingest_content request whose raw_text is empty or whitespace only
\* is answered 400, the embedding provider is not called for it, it writes no
\* row, and the table never holds a row of empty or whitespace-only content
C3_BlankTextRejected ==
  /\ \A r \in DOMAIN reqs :
       (reqs[r].kind = "ingest" /\ IsBlank(reqs[r].body.raw_text))
       => /\ reqs[r].embedCalls = << >>
          /\ AnsweredOnly(reqs[r], 400)
          /\ RowsOf(r) = << >>
  /\ \A k \in 1..Len(store) : ~IsBlank(store[k].content)

FailureSignals == {"failure", JsFalse, Null, ""}

\* C4: every row log_completion_result stored has type completion_good when
\* the outcome is "success", and completion_bad when the outcome is falsy or
\* signals failure
C4_TypeFollowsOutcome ==
  \A k \in 1..Len(store) :
    LET q == reqs[store[k].req]
    IN  q.kind = "log"
        => /\ q.body.outcome = "success" => store[k].type = "completion_good"
           /\ q.body.outcome \in FailureSignals => store[k].type = "completion_bad"

\* an outcome that is neither a success nor a failure signal
Ambiguous(outcome) == outcome \notin {"success", "failure", JsTrue, JsFalse}

\* C5: a log_completion_result request whose outcome is missing or ambiguous
\* is answered 400, with no embedding call made and no row stored
C5_AmbiguousOutcomeRejected ==
  \A r \in DOMAIN reqs :
    (reqs[r].kind = "log" /\ Ambiguous(reqs[r].body.outcome))
    => /\ reqs[r].embedCalls = << >>
       /\ AnsweredOnly(reqs[r], 400)
       /\ RowsOf(r) = << >>

SearchArgsOf(i, body, queryEmbedding) ==
  IF i = "server" THEN SearchArgsServer(body, queryEmbedding)
  ELSE SearchArgsPart(body, queryEmbedding)

\* the body with its types filter left out
OmitTypes(body) == [body EXCEPT !.types = NoTypes]

\* C6: every optional filter that is absent or unset in a search request,
\* an empty types list included, reaches the store's similarity function as
\* null, and the candidates of the query are no fewer than those of the same
\* query with the filter omitted
C6_UnsetFiltersUnconstrained ==
  \A r \in DOMAIN reqs :
    (reqs[r].kind = "search" /\ reqs[r].rpc # << >>)
    => LET body == reqs[r].body
           args == reqs[r].rpc[1]
       IN  /\ Falsy(body.course) => args.course = Null
           /\ (body.types = NoTypes \/ body.types = << >>) => args.types = NullTypes
           /\ Falsy(body.subtopic) => args.subtopic = Null
           /\ Falsy(body.assignment_type) => args.assignment_type = Null
           /\ (body.types = NoTypes \/ body.types = << >>)
                => Len(Candidates(args, store))
                     >= Len(Candidates(SearchArgsOf(impl, OmitTypes(body),
                                                    args.query_embedding), store))

\* some write of the request has failed
SomeWriteFailed(q) == \E c \in 1..Len(q.calls) : q.calls[c].st \in {"error", "threw"}

\* the request has been answered with a success
AnsweredSuccess(q) == \E k \in 1..Len(q.responses) : q.responses[k].success

\* C7: an ingest_content request is answered with a success only when all
\* its writes have completed and every one of its chunks is a row of the
\* table; once a write has failed the answer is a failure, never a success
C7_SuccessOnlyAfterAllWritten ==
  \A r \in DOMAIN reqs :
    reqs[r].kind = "ingest"
    => LET q == reqs[r]
       IN  /\ AnsweredSuccess(q)
                => /\ q.calls # << >>
                   /\ \A c \in 1..Len(q.calls) : q.calls[c].st = "ok"
                   /\ \A k \in 1..Len(q.chunks) :
                        \E n \in 1..Len(store) :
                          /\ store[n].req = r
                          /\ store[n].chunk_index = k - 1
                          /\ store[n].content = q.chunks[k]
           /\ SomeWriteFailed(q) => ~AnsweredSuccess(q)
           /\ (SomeWriteFailed(q) /\ q.pc = "done")
                => (q.responses # << >> /\ AnsweredOnly(q, 500))

\* C7 witness: a request of two chunks written by two concurrent inserts,
\* both completed, answered with a success
C7_Witness ==
  \E r \in DOMAIN reqs :
    /\ reqs[r].kind = "ingest"
    /\ Len(reqs[r].calls) = 2
    /\ \A c \in 1..2 : reqs[r].calls[c].st = "ok"
    /\ AnsweredSuccess(reqs[r])

\* the chunk indices of request r that are rows of the table
Committed(r) == { store[n].chunk_index : n \in { m \in 1..Len(store) : store[m].req = r } }

\* the chunk indices of request r
ChunkIndices(r) == 0..(Len(reqs[r].chunks) - 1)

\* the chunk indices a response names as committed: those it returns an id
\* for; and as failed: the bodies carry error messages only, and no index
NamedCommitted(resp) == 0..(Len(resp.ids) - 1)
NamedFailed(resp) == { }

\* C8: when an ingest_content request has ended with some of its chunks
\* stored and others not, its response names the indices that were committed
\* and those that failed
C8_PartialFailureNamed ==
  \A r \in DOMAIN reqs :
    (/\ reqs[r].kind = "ingest"
     /\ reqs[r].pc = "done"
     /\ AllSettled(reqs[r].calls)
     /\ Committed(r) # { }
     /\ Committed(r) # ChunkIndices(r))
    => \A k \in 1..Len(reqs[r].responses) :
         /\ NamedCommitted(reqs[r].responses[k]) = Committed(r)
         /\ NamedFailed(reqs[r].responses[k]) = ChunkIndices(r) \ Committed(r)

\* the request lacks one of the fields its operation requires
LacksRequired(q) ==
  CASE q.kind = "ingest" ->
         q.body.course = Undefined \/ q.body.type = Undefined \/ q.body.raw_text = NoText
    [] q.kind = "search" -> q.body.query = NoText
    [] OTHER ->
         \/ q.body.course = Undefined
         \/ q.body.assignment_type = Undefined
         \/ q.body.model_answer = NoText
         \/ q.body.outcome = Undefined

\* C9: a request that lacks a required field of its operation is answered
\* 400 with no call made to the embedding provider or the store, and writes
\* no row
C9_MissingFieldRejected ==
  \A r \in DOMAIN reqs :
    LacksRequired(reqs[r])
    => /\ NoExternalCall(reqs[r])
       /\ AnsweredOnly(reqs[r], 400)
       /\ RowsOf(r) = << >>

\* the text whose vector a row must carry: the text the handler sent to the
\* provider for it
EmbeddedText(row) ==
  IF reqs[row.req].kind = "log" THEN reqs[row.req].body.model_answer ELSE row.content

\* C10: when embedText has returned a number of vectors other than the
\* number of texts sent, no store call is made, the answer is a 500 and no
\* row is written; and every row of the table carries the vector of its own
\* text
C10_CountMismatchFails ==
  /\ \A r \in DOMAIN reqs :
       (/\ reqs[r].embedCalls # << >>
        /\ reqs[r].pc # "embedding"
        /\ Len(reqs[r].embeddings) # Len(reqs[r].embedCalls[1]))
       => /\ reqs[r].calls = << >> /\ reqs[r].rpc = << >>
          /\ AnsweredOnly(reqs[r], 500)
          /\ RowsOf(r) = << >>
  /\ \A k \in 1..Len(store) :
       store[k].embedding = Embedding(EmbeddedText(store[k]))

\* the rows of the table whose id is the given one
RowsWithId(id) == SelectSeq(store, LAMBDA row : row.id = id)

\* C11: in every success response of an ingest_content request the ids list
\* is as long as chunks_stored, which is the number of chunks produced, and
\* ids[i] is the id of the one stored row whose content is the i-th chunk of
\* that request
C11_IdsAligned ==
  \A r \in DOMAIN reqs :
    reqs[r].kind = "ingest"
    => \A k \in 1..Len(reqs[r].responses) :
         LET resp == reqs[r].responses[k]
         IN  resp.success
             => /\ Len(resp.ids) = resp.chunks_stored
                /\ resp.chunks_stored = Len(reqs[r].chunks)
                /\ \A i \in 1..Len(resp.ids) :
                     LET rows == RowsWithId(resp.ids[i])
                     IN  /\ Len(rows) = 1
                         /\ rows[1].req = r
                         /\ rows[1].content = reqs[r].chunks[i]

\* C11 witness: a success for two chunks whose inserts completed in the
\* reverse of the chunk order, so that the ids are not increasing
C11_Witness ==
  \E r \in DOMAIN reqs :
    /\ reqs[r].kind = "ingest"
    /\ \E k \in 1..Len(reqs[r].responses) :
         LET resp == reqs[r].responses[k]
         IN  /\ resp.success
             /\ Len(resp.ids) = 2
             /\ resp.ids[1] > resp.ids[2]

\* the operation of request q needs a client that the environment does not
\* configure: the routes of src/server.js and of the second file of part_000
\* use both clients, the log route of the first file the store client only
Affected(i, e, q) ==
  IF i = "early" /\ q.kind = "log" THEN ~e.supabase ELSE ~Configured(e)

\* C12: when the credentials of the embedding provider or of the store are
\* absent at process start, every request to an operation that needs them
\* has exactly one response, which says that the service is not configured,
\* and no call to the provider or to the store is made for it
C12_NotConfiguredRefused ==
  \A r \in DOMAIN reqs :
    Affected(impl, env, reqs[r])
    => /\ NoExternalCall(reqs[r])
       /\ Len(reqs[r].responses) = 1
       /\ reqs[r].responses[1].error = NotConfiguredMessage

\* C13: a request that a handler has received is never answered twice,
\* and whatever its calls to the provider and to the store do (data, an
\* error value, an exception, or neither data nor error) it is in the end
\* answered exactly once
C13_ExactlyOneResponse ==
  /\ [](\A r \in DOMAIN reqs : Len(reqs[r].responses) <= 1)
  /\ \A r \in RequestIds :
       (r \in DOMAIN reqs /\ reqs[r].pc # "unserved")
       ~> (r \in DOMAIN reqs /\ reqs[r].pc = "done" /\ Len(reqs[r].responses) = 1)

\* C13 witness: a request whose first insert threw and whose second insert
\* then came back without data and without error, answered once
C13_Witness ==
  \E r \in DOMAIN reqs :
    /\ Len(reqs[r].calls) = 2
    /\ reqs[r].calls[1].st = "threw"
    /\ reqs[r].calls[2].st = "nodata"
    /\ Len(reqs[r].responses) = 1

\* C14: every call of chunkText returns; the profile it resolved for the
\* name given, an unknown name included, has overlapWords < sizeWords; and
\* when the loop runs, the window start is strictly greater at each
\* iteration and the last window ends at the number of words
C14_TerminatesWithProgress ==
  chunkRun.pc = "returned"
  => LET cfg  == ConfigOf(impl, chunkRun.profile)
         n    == Len(WordsOf(impl, chunkRun.text))
         wins == chunkRun.wins
     IN  /\ Less(cfg.overlapWords, cfg.sizeWords)
         /\ LoopEntered(impl, chunkRun.text, chunkRun.profile)
              => /\ Len(wins) >= 1
                 /\ \A k \in 1..(Len(wins) - 1) : Less(wins[k][1], wins[k + 1][1])
                 /\ wins[Len(wins)][2] = n

\* the start and the end of the k-th window as the rule states them: the
\* first window starts at 0, a later one at the end of the one before minus
\* overlapWords, and a window ends at min(start + sizeWords, total)
RECURSIVE StartOf(_, _, _, _)
StartOf(k, sizeWords, overlapWords, total) ==
  IF k = 1 THEN 0
  ELSE Min(StartOf(k - 1, sizeWords, overlapWords, total) + sizeWords, total) - overlapWords

EndOf(k, sizeWords, overlapWords, total) ==
  Min(StartOf(k, sizeWords, overlapWords, total) + sizeWords, total)

\* C15: for a text with more words than sizeWords, the k-th chunk is the
\* words of the k-th window of the rule (first start 0, later starts at the
\* previous end minus overlapWords, ends at min(start + sizeWords, total)),
\* the last window and no earlier one ends at the total, and for 1000 words
\* under 400 / 60 the windows are [0,400), [340,740), [680,1000)
C15_WindowsByRule ==
  (chunkRun.pc = "returned"
     /\ Less(ConfigOf(impl, chunkRun.profile).sizeWords, Len(RealWords(chunkRun.text))))
  => LET cfg   == ConfigOf(impl, chunkRun.profile)
         words == RealWords(chunkRun.text)
         total == Len(words)
         out   == chunkRun.chunks
         S(k)  == StartOf(k, cfg.sizeWords, cfg.overlapWords, total)
         E(k)  == EndOf(k, cfg.sizeWords, cfg.overlapWords, total)
     IN  /\ Len(out) >= 1
         /\ \A k \in 1..Len(out) : RealWords(out[k]) = SubSeq(words, S(k) + 1, E(k))
         /\ \A k \in 1..(Len(out) - 1) : E(k) < total /\ E(k) - S(k + 1) = cfg.overlapWords
         /\ E(Len(out)) = total
         /\ (total = 1000 /\ cfg.sizeWords = 400)
              => << << S(1), E(1) >>, << S(2), E(2) >>, << S(3), E(3) >> >>
                   = << << 0, 400 >>, << 340, 740 >>, << 680, 1000 >> >>
                 /\ Len(out) = 3

\* a response that reports a server error
ServerError(resp) == resp.status >= 500 /\ ~resp.success

\* C16: a request whose call to the embedding provider failed is answered
\* with a server error and with nothing else, no insert and no rpc call is
\* issued for it, and no row of the table is its own
C16_ProviderFailureAborts ==
  \A r \in DOMAIN reqs :
    reqs[r].provider = "throw"
    => /\ reqs[r].pc = "done"
       /\ Len(reqs[r].responses) = 1
       /\ ServerError(reqs[r].responses[1])
       /\ reqs[r].calls = << >>
       /\ reqs[r].rpc = << >>
       /\ RowsOf(r) = << >>

\* C16 witness: the provider call of a log_completion_result request failed
\* while the table already held rows of another request
C16_Witness ==
  \E r \in DOMAIN reqs :
    /\ reqs[r].kind = "log"
    /\ reqs[r].provider = "throw"
    /\ reqs[r].responses # << >>
    /\ store # << >>

\* the positions of the table that hold rows of request r
PositionsOf(r) == { m \in 1..Len(store) : store[m].req = r }

\* C17: the rows of an ingest_content request of n chunks have chunk_index
\* values in 0..n-1, no two of them the same, the row of chunk_index i holds
\* the i-th chunk and the i-th vector of the provider's reply, and all of
\* 0..n-1 are there once the request is answered with a success; a
\* log_completion_result request writes one row at most, of chunk_index 0
C17_ChunkIndexAligned ==
  \A r \in DOMAIN reqs :
    LET q == reqs[r]
        n == Len(q.chunks)
    IN  /\ q.kind = "ingest"
             => /\ \A m \in PositionsOf(r) :
                     /\ store[m].chunk_index \in 0..(n - 1)
                     /\ store[m].content = q.chunks[store[m].chunk_index + 1]
                     /\ store[m].embedding = At(q.embeddings, store[m].chunk_index)
                /\ \A m1, m2 \in PositionsOf(r) :
                     store[m1].chunk_index = store[m2].chunk_index => m1 = m2
                /\ AnsweredSuccess(q) => Committed(r) = 0..(n - 1)
        /\ q.kind = "log"
             => /\ Cardinality(PositionsOf(r)) <= 1
                /\ \A m \in PositionsOf(r) : store[m].chunk_index = 0

\* C17 witness: the table holds the row of chunk 1 of a request before its
\* row of chunk 0, and a row of a log_completion_result request
C17_Witness ==
  /\ \E m1, m2 \in 1..Len(store) :
       /\ m1 < m2
       /\ store[m1].req = store[m2].req
       /\ store[m1].chunk_index = 1
       /\ store[m2].chunk_index = 0
  /\ \E m \in 1..Len(store) : reqs[store[m].req].kind = "log"

\* the result count a request asks for: its top_k; the first file of
\* part_000 names the field limit, and a request to it may use that name
CountAsked(i, body) ==
  IF i = "early" /\ body.top_k = NoNumber THEN body.limit ELSE body.top_k

\* C18: the count cap and the threshold that reach the store's similarity
\* function are the request's top_k and threshold, or the defaults (a count
\* of 8 to 10, a threshold of 0.7) where the request has none, and a success
\* response carries the rows the function returned, in its order
C18_PassThrough ==
  \A r \in DOMAIN reqs :
    (reqs[r].kind = "search" /\ reqs[r].rpc # << >>)
    => LET body  == reqs[r].body
           args  == reqs[r].rpc[1]
           asked == CountAsked(impl, body)
       IN  /\ asked # NoNumber => args.limit = asked
           /\ asked = NoNumber => args.limit \in 8..10
           /\ body.threshold # NoNumber => args.threshold = body.threshold
           /\ body.threshold = NoNumber => args.threshold = 7
           /\ \A k \in 1..Len(reqs[r].responses) :
                reqs[r].responses[k].success
                => reqs[r].responses[k].results = reqs[r].data

\* the step is one of a search_content request: the request arrives, or one
\* of its calls settles
SearchStep ==
  \/ Len(reqs') = Len(reqs) + 1 /\ reqs'[Len(reqs')].kind = "search"
  \/ \E r \in DOMAIN reqs : reqs[r].kind = "search" /\ reqs'[r] # reqs[r]

\* C19: every step leaves the rows that are in the table where they are and
\* as they are (the table grows at its end only), and a step of a
\* search_content request leaves the whole table as it is
C19_StoreOnlyGrows ==
  [][/\ Len(store') >= Len(store)
     /\ SubSeq(store', 1, Len(store)) = store
     /\ SearchStep => store' = store]_vars

\* C19 witness: a search_content request has been answered with rows that
\* an earlier request wrote
C19_Witness ==
  /\ \E r \in DOMAIN reqs :
       /\ reqs[r].kind = "search"
       /\ reqs[r].pc = "done"
       /\ reqs[r].data # << >>
  /\ Len(store) >= 1

\* v is the field value x of the request, as it came or as x || null
Own(v, x) == v = x \/ (Falsy(x) /\ v = Null)

\* the type a log_completion_result request's row gets from its outcome
LogTypeOf(i, outcome) ==
  IF i = "server" THEN LogTypeServer(outcome) ELSE LogTypePart(outcome)

\* the content a log_completion_result request's row gets from its body
LogContentOf(i, body) ==
  IF i = "server" THEN body.model_answer
  ELSE Stringify(<< body.original_prompt, body.model_answer, body.score,
                    body.teacher_feedback >>)

\* C20: under every interleaving of the requests in flight, each row of the
\* table carries the course, type, metadata, content and vector of the
\* request that wrote it, and each ingest_content success reports the chunk
\* count of its own request and ids of rows of its own request only
C20_NoInterference ==
  /\ \A m \in 1..Len(store) :
       LET row == store[m]
           q   == reqs[row.req]
       IN  /\ row.course = q.body.course
           /\ Own(row.subtopic, q.body.subtopic)
           /\ Own(row.assignment_type, q.body.assignment_type)
           /\ row.embedding = At(q.embeddings, row.chunk_index)
           /\ q.kind = "ingest"
                => /\ row.type = q.body.type
                   /\ Own(row.source_name, q.body.source_name)
                   /\ row.content = q.chunks[row.chunk_index + 1]
           /\ q.kind = "log"
                => /\ row.type = LogTypeOf(impl, q.body.outcome)
                   /\ row.content = LogContentOf(impl, q.body)
  /\ \A r \in DOMAIN reqs :
       \A k \in 1..Len(reqs[r].responses) :
         LET resp == reqs[r].responses[k]
         IN  (resp.success /\ reqs[r].kind = "ingest")
             => /\ resp.chunks_stored = Len(reqs[r].chunks)
                /\ \A i \in 1..Len(resp.ids) :
                     \A m \in 1..Len(store) :
                       store[m].id = resp.ids[i] => store[m].req = r

\* C20 witness: two ingest requests of different courses were in flight
\* together, and a row of one lies between the two rows of the other
C20_Witness ==
  \E m1, m2, m3 \in 1..Len(store) :
    /\ m1 < m2 /\ m2 < m3
    /\ store[m1].req = store[m3].req
    /\ store[m2].req # store[m1].req
    /\ store[m2].course # store[m1].course
    /\ reqs[store[m1].req].kind = "ingest"
    /\ reqs[store[m2].req].kind = "ingest"

====
